---------------------------- MODULE Spec2Model ----------------------------
(***************************************************************************)
(* Model of the URL shortener front-end (src/frontend/main.py).            *)
(*                                                                         *)
(* Strings are TLA+ strings; Len, SubSeq and \o act on them character by   *)
(* character, so str.strip, str.startswith and string concatenation are    *)
(* computed as the Python code computes them.                              *)
(*                                                                         *)
(* The program keeps no state of its own between requests.  The model      *)
(* records what a caller can observe: the request last handled and its     *)
(* response, the helper calls made while handling it, and the history of   *)
(* results rendered by shorten and returned by redirect_short.             *)
(***************************************************************************)
EXTENDS Integers, Sequences, FiniteSets, TLC

(***************************************************************************)
(* Bounds of the model.                                                    *)
(***************************************************************************)
MaxPad == 2        \* at most this many whitespace characters on each side
NumWorkers == 2    \* concurrent request handlers in ConcSpec

(***************************************************************************)
(* Request inputs.                                                         *)
(***************************************************************************)
\* characters removed by str.strip()
WHITESPACE == {" ", "\t", "\n", "\r"}

\* a run of n whitespace characters, alternating space and tab
RECURSIVE WhitespaceRun(_)
WhitespaceRun(n) ==
    IF n = 0 THEN ""
    ELSE WhitespaceRun(n - 1) \o (IF n % 2 = 1 THEN " " ELSE "\t")

Pads == {WhitespaceRun(n) : n \in 0..MaxPad}

Schemes == {"", "http://", "https://"}

Hosts == {"", "a.io"}

\* values of the form field "url"
RawUrls == {l \o s \o h \o r : l \in Pads, s \in Schemes, h \in Hosts, r \in Pads}

\* values of the <code> path parameter
Codes == {"https://example.com", "doesnotexist"}

Workers == 1..NumWorkers

(***************************************************************************)
(* Pure functions of main.py.                                              *)
(***************************************************************************)
RECURSIVE lstrip(_)
lstrip(s) ==
    IF Len(s) > 0 /\ SubSeq(s, 1, 1) \in WHITESPACE
    THEN lstrip(SubSeq(s, 2, Len(s)))
    ELSE s

RECURSIVE rstrip(_)
rstrip(s) ==
    IF Len(s) > 0 /\ SubSeq(s, Len(s), Len(s)) \in WHITESPACE
    THEN rstrip(SubSeq(s, 1, Len(s) - 1))
    ELSE s

\* a handler that forgets to trim the form value
strip_untrimmed(s) == s

\* str.strip()
strip(s) == rstrip(lstrip(s))

\* str.startswith(prefix)
startswith(s, prefix) ==
    Len(s) >= Len(prefix) /\ SubSeq(s, 1, Len(prefix)) = prefix

\* a normalizer that returns its argument unchanged
normalize_url_unchanged(url) == url

normalize_url(url) ==
    IF ~(startswith(url, "http://") \/ startswith(url, "https://"))
    THEN "https://" \o url
    ELSE url

VARIABLES
    request,      \* the request last handled: [route, arg]
    response,     \* its response
    calls,        \* helper calls made while handling it: sequence of [fn, arg]
    issued,       \* results rendered by shorten so far: set of [url, original, short_url]
    resolved,     \* results returned by redirect_short so far: set of [code, status, location]
    pc,           \* ConcSpec: position of each handler inside shorten
    w_url,        \* ConcSpec: the trimmed form value each handler read
    w_original,   \* ConcSpec: each handler's local `original`
    w_short_url   \* ConcSpec: each handler's local `short_url`

vars == <<request, response, calls, issued, resolved, pc, w_url, w_original, w_short_url>>

seqVars == <<request, response, calls, resolved>>
workerVars == <<pc, w_url, w_original, w_short_url>>

\* a code assigner that numbers codes by arrival instead of keying them by URL
get_short_url_by_arrival(original_url) ==
    IF issued = {} THEN "https://example.com" ELSE "https://example.com/1"

get_short_url(original_url) == "https://example.com"

\* a resolver that consumes the mapping on first use
get_original_url_single_use(code) ==
    IF \E r \in resolved : r.code = code THEN "" ELSE "https://example.com"

get_original_url(code) == "https://example.com"

(***************************************************************************)
(* Responses.                                                              *)
(***************************************************************************)
NoResponse ==
    [status |-> 0, template |-> "", location |-> "", flash |-> "",
     original |-> "", short_url |-> "", body |-> ""]

RenderIndex == [NoResponse EXCEPT !.status = 200, !.template = "index.html"]

FlashAndRedirectToIndex ==
    [NoResponse EXCEPT !.status = 302, !.location = "index",
                       !.flash = "enter URL"]

RenderResult(original, short_url) ==
    [NoResponse EXCEPT !.status = 200, !.template = "result.html",
                       !.original = original, !.short_url = short_url]

NotFound == [NoResponse EXCEPT !.status = 404, !.body = "short link not found"]

Redirect(location) == [NoResponse EXCEPT !.status = 302, !.location = location]

Init ==
    /\ request = [route |-> "none", arg |-> ""]
    /\ response = NoResponse
    /\ calls = <<>>
    /\ issued = {}
    /\ resolved = {}
    /\ pc = [w \in Workers |-> "start"]
    /\ w_url = [w \in Workers |-> ""]
    /\ w_original = [w \in Workers |-> ""]
    /\ w_short_url = [w \in Workers |-> ""]

(***************************************************************************)
(* Handlers, one action per request (Spec).                                *)
(***************************************************************************)
index ==
    /\ request' = [route |-> "index", arg |-> ""]
    /\ response' = RenderIndex
    /\ calls' = <<>>
    /\ UNCHANGED <<issued, resolved>>
    /\ UNCHANGED workerVars

shorten(raw) ==
    LET stripped == strip(raw) IN
    /\ request' = [route |-> "shorten", arg |-> raw]
    /\ IF stripped = ""
       THEN /\ response' = FlashAndRedirectToIndex
            /\ calls' = <<>>
            /\ UNCHANGED issued
       ELSE LET original == normalize_url(stripped)
                short_url == get_short_url(original)
            IN /\ response' = RenderResult(original, short_url)
               /\ calls' = <<[fn |-> "normalize_url", arg |-> stripped],
                             [fn |-> "get_short_url", arg |-> original]>>
               /\ issued' = issued \cup
                      {[url |-> stripped, original |-> original,
                        short_url |-> short_url]}
    /\ UNCHANGED resolved
    /\ UNCHANGED workerVars

redirect_short(code) ==
    LET original == get_original_url(code) IN
    /\ request' = [route |-> "redirect_short", arg |-> code]
    /\ calls' = <<[fn |-> "get_original_url", arg |-> code]>>
    /\ response' = IF original = "" THEN NotFound ELSE Redirect(original)
    /\ resolved' = resolved \cup
           {[code |-> code, status |-> response'.status,
             location |-> response'.location]}
    /\ UNCHANGED issued
    /\ UNCHANGED workerVars

Next ==
    \/ index
    \/ \E raw \in RawUrls : shorten(raw)
    \/ \E code \in Codes : redirect_short(code)

Spec == Init /\ [][Next]_vars

(***************************************************************************)
(* The shorten handler statement by statement, one handler per worker      *)
(* (ConcSpec).  Flask serves each request on its own thread; the handlers  *)
(* share no program state.                                                 *)
(***************************************************************************)
\* line 27: original = request.form.get("url", "").strip()
ReadForm(w, raw) ==
    /\ pc[w] = "start"
    /\ w_url' = [w_url EXCEPT ![w] = strip(raw)]
    /\ w_original' = [w_original EXCEPT ![w] = strip(raw)]
    /\ pc' = [pc EXCEPT ![w] = "check"]
    /\ UNCHANGED <<w_short_url, issued>>
    /\ UNCHANGED seqVars

\* lines 28-30: if not original: flash(...); return redirect(url_for("index"))
CheckEmpty(w) ==
    /\ pc[w] = "check"
    /\ pc' = [pc EXCEPT ![w] = IF w_original[w] = "" THEN "rejected" ELSE "normalize"]
    /\ UNCHANGED <<w_url, w_original, w_short_url, issued>>
    /\ UNCHANGED seqVars

\* line 32: original = normalize_url(original)
Normalize(w) ==
    /\ pc[w] = "normalize"
    /\ w_original' = [w_original EXCEPT ![w] = normalize_url(w_original[w])]
    /\ pc' = [pc EXCEPT ![w] = "assign"]
    /\ UNCHANGED <<w_url, w_short_url, issued>>
    /\ UNCHANGED seqVars

\* line 33: short_url = get_short_url(original)
AssignCode(w) ==
    /\ pc[w] = "assign"
    /\ w_short_url' = [w_short_url EXCEPT ![w] = get_short_url(w_original[w])]
    /\ pc' = [pc EXCEPT ![w] = "render"]
    /\ UNCHANGED <<w_url, w_original, issued>>
    /\ UNCHANGED seqVars

\* line 34: return render_template("result.html", ...)
Render(w) ==
    /\ pc[w] = "render"
    /\ issued' = issued \cup
           {[url |-> w_url[w], original |-> w_original[w],
             short_url |-> w_short_url[w]]}
    /\ pc' = [pc EXCEPT ![w] = "done"]
    /\ UNCHANGED <<w_url, w_original, w_short_url>>
    /\ UNCHANGED seqVars

ConcNext ==
    \E w \in Workers :
        \/ \E raw \in RawUrls : ReadForm(w, raw)
        \/ CheckEmpty(w)
        \/ Normalize(w)
        \/ AssignCode(w)
        \/ Render(w)

ConcSpec == Init /\ [][ConcNext]_vars

(***************************************************************************)
(* The code -> URL mappings that resolution reads through: the program     *)
(* has no store besides what get_original_url answers.                     *)
(***************************************************************************)
Store == {[code |-> c, original_url |-> get_original_url(c)] : c \in Codes}

MappingsFor(u) == {m \in Store : m.original_url = u}

(***************************************************************************)
(* Properties.                                                             *)
(***************************************************************************)
\* the input consists of whitespace only (or is empty)
IsBlank(s) == \A i \in 1..Len(s) : SubSeq(s, i, i) \in WHITESPACE

SchemeQualified(u) == startswith(u, "http://") \/ startswith(u, "https://")

\* C1: resolving the code that shorten(u) returned redirects to exactly
\* normalize(u), whatever was shortened or resolved before.
RoundTrip ==
    request.route = "redirect_short" =>
        \A m \in issued :
            m.short_url = request.arg =>
                /\ response.status = 302
                /\ response.location = m.original

\* C2: resolving a code that no shorten has returned answers 404 instead
\* of redirecting to an original URL.
NotFoundForUnknownCode ==
    (/\ request.route = "redirect_short"
     /\ ~ \E m \in issued : m.short_url = request.arg)
        => response.status = 404

\* C3: two distinct normalized URLs never get the same code.
UniqueCodes ==
    \A m1, m2 \in issued :
        m1.original # m2.original => m1.short_url # m2.short_url

\* C4: shortening a URL that was shortened before returns the code it got
\* then, and afterwards exactly one mapping exists for the normalized URL.
IdempotentShorten ==
    [][\A m \in issued :
          (/\ request'.route = "shorten"
           /\ response'.template = "result.html"
           /\ response'.original = m.original)
              => /\ response'.short_url = m.short_url
                 /\ Cardinality(MappingsFor(m.original)) = 1]_vars

\* C5: a shorten request whose input is empty after trimming is answered
\* with the flash message and the redirect to index, calls neither
\* normalize_url nor get_short_url, and leaves the issued mappings as
\* they were.
EmptyInputRejected ==
    [][(/\ request'.route = "shorten"
        /\ IsBlank(request'.arg))
           => /\ response' = FlashAndRedirectToIndex
              /\ calls' = <<>>
              /\ issued' = issued]_vars

EmptyInputRejectedWitness ==
    /\ request.route = "shorten"
    /\ request.arg = " \t"
    /\ response.status = 302
    /\ response.flash # ""
    /\ issued # {}

\* C6: when all concurrent handlers shortened the same new URL, they all
\* returned the same code and exactly one mapping exists for that URL.
ConcurrentSameUrl ==
    (/\ \A w \in Workers : pc[w] = "done"
     /\ \A w1, w2 \in Workers : w_original[w1] = w_original[w2])
        => /\ \A w1, w2 \in Workers : w_short_url[w1] = w_short_url[w2]
           /\ \A w \in Workers : Cardinality(MappingsFor(w_original[w])) = 1

\* C7: every URL handed to get_short_url, and every URL rendered as the
\* original of a mapping, is non-empty and begins with http:// or https://.
StoredUrlQualified ==
    /\ \A i \in DOMAIN calls :
           calls[i].fn = "get_short_url" =>
               calls[i].arg # "" /\ SchemeQualified(calls[i].arg)
    /\ \A m \in issued : m.original # "" /\ SchemeQualified(m.original)

StoredUrlQualifiedWitness ==
    /\ request.route = "shorten"
    /\ request.arg = " a.io"
    /\ Len(calls) = 2
    /\ calls[2] = [fn |-> "get_short_url", arg |-> "https://a.io"]

\* C8: for a non-empty scheme-less u, a shorten of u and a shorten of
\* "https://" + u return the same code, in either order, with whitespace
\* around either input and with any requests in between.
SameCodeUpToScheme ==
    [][\A u \in Hosts \ {""} : \A m \in issued : \A l, r \in Pads :
          (/\ m.url \in {u, "https://" \o u}
           /\ request'.route = "shorten"
           /\ request'.arg \in {l \o u \o r, l \o "https://" \o u \o r})
              => /\ response'.template = "result.html"
                 /\ response'.short_url = m.short_url]_vars

SameCodeUpToSchemeWitness ==
    /\ \E m \in issued : m.url = "a.io" /\ m.short_url = response.short_url
    /\ \E m \in issued : m.url = "https://a.io" /\ m.short_url = response.short_url
    /\ request.route = "shorten"
    /\ request.arg = " \thttps://a.io "
    /\ response.template = "result.html"

\* C9: a shorten of a new URL for which the only code on offer is already
\* taken by another URL fails (GenerationExhaustedError) and adds no mapping.
ExhaustionFails ==
    [][(/\ request'.route = "shorten"
        /\ Len(calls') = 2
        /\ ~ \E m \in issued : m.original = calls'[2].arg
        /\ \E m \in issued : m.short_url = get_short_url(calls'[2].arg))
           => /\ response'.template # "result.html"
              /\ issued' = issued]_vars

\* C10: once a code has resolved to a URL, every later resolve of it
\* redirects to the same URL, whatever was requested in between, and a
\* resolve leaves the issued mappings as they were.
MappingImmutable ==
    [][request'.route = "redirect_short" =>
          /\ issued' = issued
          /\ \A r \in resolved :
                 (r.code = request'.arg /\ r.status = 302)
                     => /\ response'.status = 302
                        /\ response'.location = r.location]_vars

MappingImmutableWitness ==
    /\ request.route = "redirect_short"
    /\ issued # {}
    /\ Cardinality(resolved) = Cardinality(Codes)
    /\ \E r \in resolved : r.code = request.arg /\ r.location = response.location

=============================================================================
